---- MODULE Spec2Model ----
(***************************************************************************)
(* Campaign Management API (src/main.py): the in-memory store `data`, the   *)
(* pydantic request models, id generation and the five request handlers.    *)
(*                                                                          *)
(* Representation of Python values:                                         *)
(*   str            a sequence of one-character strings (names), or a       *)
(*                  TLA+ string where the code never looks inside it        *)
(*                  (due_date, created_at)                                  *)
(*   Optional[T]    None == <<>>, a value v == <<v>>                        *)
(*   dict           a function whose DOMAIN is the set of keys              *)
(*   a request body a dict of the keys the client sent                      *)
(***************************************************************************)
EXTENDS Integers, Sequences, FiniteSets, TLC

VARIABLES data, now, last, clients

vars == <<data, now, last, clients>>

(***************************************************************************)
(* Bounds of the model.  The source draws ids with random.randint(1, 10000) *)
(* and gives up after max_attempts = 1000 draws; the model keeps both as    *)
(* parameters of the algorithm and explores them at a small size.           *)
(***************************************************************************)
MaxId == 3
MaxAttempts == 2
MaxRequests == 2
NumClients == 2
MaxConcRequests == 3

\* Field(..., min_length=1, max_length=200)
MIN_LENGTH == 1
MAX_LENGTH == 200

HTTP_200_OK == 200
HTTP_201_CREATED == 201
HTTP_204_NO_CONTENT == 204
HTTP_400_BAD_REQUEST == 400
HTTP_404_NOT_FOUND == 404
HTTP_422_UNPROCESSABLE == 422
HTTP_500_INTERNAL_SERVER_ERROR == 500

IdSpace == 1..MaxId

None == <<>>
Some(v) == <<v>>

(***************************************************************************)
(* str.strip(): leading and trailing whitespace removed.                    *)
(***************************************************************************)
IsSpace(c) == c \in {" ", "\t", "\n"}

RECURSIVE lstrip(_)
lstrip(s) == IF s # <<>> /\ IsSpace(Head(s)) THEN lstrip(Tail(s)) ELSE s

RECURSIVE rstrip(_)
rstrip(s) == IF s # <<>> /\ IsSpace(s[Len(s)]) THEN rstrip(SubSeq(s, 1, Len(s) - 1)) ELSE s

strip(s) == rstrip(lstrip(s))

\* datetime.isoformat() of the model's clock value t
isoformat(t) == "2025-12-28T10:00:0" \o ToString(t)

\* the outcome of a validation: the validated value, or a ValueError
Valid(v) == [ok |-> TRUE, value |-> v]
Invalid == [ok |-> FALSE, value |-> <<>>]

\* Field(min_length=1, max_length=200) on a str, checked on the raw value
name_field_ok(v) == Len(v) >= MIN_LENGTH /\ Len(v) <= MAX_LENGTH

\* faulty variant: the blank check dropped, only the strip kept
CampaignBase_validate_name_noblank(v) == Valid(strip(v))

\* CampaignBase.validate_name
CampaignBase_validate_name(v) ==
    IF Len(v) = 0 \/ Len(strip(v)) = 0 THEN Invalid ELSE Valid(strip(v))

\* faulty variant: the value is checked but returned as sent
CampaignUpdate_validate_name_nostrip(v) ==
    IF v # None
    THEN IF Len(v[1]) = 0 \/ Len(strip(v[1])) = 0 THEN Invalid ELSE Valid(v)
    ELSE Valid(v)

\* CampaignUpdate.validate_name, v an Optional[str]
CampaignUpdate_validate_name(v) ==
    IF v # None
    THEN IF Len(v[1]) = 0 \/ Len(strip(v[1])) = 0 THEN Invalid ELSE Valid(Some(strip(v[1])))
    ELSE Valid(v)

(***************************************************************************)
(* The CampaignCreate model: name is a required str (null is not a str),      *)
(* due_date an Optional[str] defaulting to None; unknown keys are ignored.  *)
(***************************************************************************)
CampaignCreate(body) ==
    IF "name" \notin DOMAIN body THEN Invalid
    ELSE IF body.name = None THEN Invalid
    ELSE IF ~name_field_ok(body.name[1]) THEN Invalid
    ELSE IF ~CampaignBase_validate_name(body.name[1]).ok THEN Invalid
    ELSE Valid([name |-> CampaignBase_validate_name(body.name[1]).value,
                due_date |-> IF "due_date" \in DOMAIN body THEN body.due_date ELSE None])

(***************************************************************************)
(* The CampaignUpdate model: both fields Optional with default None; the      *)
(* model remembers which fields were set; unknown keys are ignored.         *)
(***************************************************************************)
CampaignUpdate(body) ==
    LET fields_set == DOMAIN body \cap {"name", "due_date"}
        raw_name == IF "name" \in DOMAIN body THEN body.name ELSE None
    IN  IF "name" \in DOMAIN body /\ raw_name # None /\ ~name_field_ok(raw_name[1]) THEN Invalid
        ELSE IF "name" \in DOMAIN body /\ ~CampaignUpdate_validate_name(raw_name).ok THEN Invalid
        ELSE Valid([fields_set |-> fields_set,
                    name |-> IF "name" \in DOMAIN body
                             THEN CampaignUpdate_validate_name(raw_name).value ELSE None,
                    due_date |-> IF "due_date" \in DOMAIN body THEN body.due_date ELSE None])

\* campaign_update.model_dump(exclude_unset=True)
model_dump_exclude_unset(m) ==
    [k \in m.fields_set |-> IF k = "name" THEN m.name ELSE m.due_date]

\* dict.pop(key, None), the dict that is left
pop(d, key) == [k \in DOMAIN d \ {key} |-> d[k]]

\* dict.update(other), the dict that results
dict_update(d, other) ==
    [k \in DOMAIN d \cup DOMAIN other |-> IF k \in DOMAIN other THEN other[k] ELSE d[k]]

\* Path(..., gt=0)
path_id_ok(campaign_id) == campaign_id > 0

(***************************************************************************)
(* serialisation of a stored dict through response_model=CampaignResponse:  *)
(* campaign_id: int, name: str, due_date: Optional[str], created_at: str.   *)
(* A dict whose name is None fails it (500).                                *)
(***************************************************************************)
CampaignResponse(item) ==
    IF {"campaign_id", "name", "due_date", "created_at"} \subseteq DOMAIN item
       /\ item.name # None
    THEN Valid([k \in {"campaign_id", "name", "due_date", "created_at"} |-> item[k]])
    ELSE Invalid

ids(store) == {store[i].campaign_id : i \in DOMAIN store}

\* next((i for item in data if item["campaign_id"] == campaign_id), None): the
\* position of the first match, 0 for None
find(store, campaign_id) ==
    IF campaign_id \in ids(store)
    THEN CHOOSE i \in DOMAIN store :
            /\ store[i].campaign_id = campaign_id
            /\ \A j \in 1..(i - 1) : store[j].campaign_id # campaign_id
    ELSE 0

\* list.remove(x): the first element equal to x is removed
list_remove(store, x) ==
    LET i == CHOOSE k \in DOMAIN store : store[k] = x /\ \A j \in 1..(k - 1) : store[j] # x
    IN  SubSeq(store, 1, i - 1) \o SubSeq(store, i + 1, Len(store))

\* the answer of a handler: the store it leaves, the status, the content, and
\* the ids drawn on the way
Answer(store, status, content, draws) ==
    [data |-> store, status |-> status, content |-> content, draws |-> draws]

(***************************************************************************)
(* generate_unique_campaign_id: `stream` is the sequence of values          *)
(* random.randint returns, one per attempt.  The result is the first draw   *)
(* that no item of the store carries, with the draws made up to it, or id 0 *)
(* (the HTTPException 500) after max_attempts colliding draws.              *)
(***************************************************************************)
first_free(store, stream) ==
    IF \E k \in 1..MaxAttempts : stream[k] \notin ids(store)
    THEN CHOOSE k \in 1..MaxAttempts :
            /\ stream[k] \notin ids(store)
            /\ \A j \in 1..(k - 1) : stream[j] \in ids(store)
    ELSE 0

\* faulty variant: the first draw is returned without the membership test
generate_unique_campaign_id_unchecked(store, stream) ==
    [campaign_id |-> stream[1], draws |-> SubSeq(stream, 1, 1)]

\* faulty variant: the loop gives up after the first colliding draw
generate_unique_campaign_id_once(store, stream) ==
    IF stream[1] \notin ids(store)
    THEN [campaign_id |-> stream[1], draws |-> SubSeq(stream, 1, 1)]
    ELSE [campaign_id |-> 0, draws |-> SubSeq(stream, 1, 1)]

generate_unique_campaign_id(store, stream) ==
    LET k == first_free(store, stream)
    IN  IF k # 0
        THEN [campaign_id |-> stream[k], draws |-> SubSeq(stream, 1, k)]
        ELSE [campaign_id |-> 0, draws |-> SubSeq(stream, 1, MaxAttempts)]

\* create_campaign, the handler body; campaign is the validated CampaignCreate
create_campaign(store, campaign, stream, t) ==
    LET g == generate_unique_campaign_id(store, stream)
        due_date == IF campaign.due_date # None /\ campaign.due_date[1] # ""
                    THEN campaign.due_date ELSE None
        new_campaign == [campaign_id |-> g.campaign_id,
                         name |-> Some(campaign.name),
                         due_date |-> due_date,
                         created_at |-> isoformat(t)]
    IN  IF g.campaign_id = 0
        THEN Answer(store, HTTP_500_INTERNAL_SERVER_ERROR, None, g.draws)
        ELSE Answer(Append(store, new_campaign), HTTP_201_CREATED, Some(new_campaign), g.draws)

\* the dict the update handler leaves in the store and returns
respond_updated(store, i, campaign) ==
    LET merged == [store EXCEPT ![i] = campaign]
    IN  IF CampaignResponse(campaign).ok
        THEN Answer(merged, HTTP_200_OK, Some(CampaignResponse(campaign).value), <<>>)
        ELSE Answer(merged, HTTP_500_INTERNAL_SERVER_ERROR, None, <<>>)

\* faulty variant: the empty-update check dropped
update_campaign_noempty(store, campaign_id, campaign_update, t) ==
    LET i == find(store, campaign_id)
        update_data == pop(pop(model_dump_exclude_unset(campaign_update), "campaign_id"), "created_at")
    IN  IF i = 0 THEN Answer(store, HTTP_404_NOT_FOUND, None, <<>>)
        ELSE respond_updated(store, i, dict_update(store[i], update_data))

\* faulty variant: the update also stamps the record with the current time
update_campaign_touch(store, campaign_id, campaign_update, t) ==
    LET i == find(store, campaign_id)
        update_data == pop(pop(model_dump_exclude_unset(campaign_update), "campaign_id"), "created_at")
    IN  IF i = 0 THEN Answer(store, HTTP_404_NOT_FOUND, None, <<>>)
        ELSE IF DOMAIN update_data = {} THEN Answer(store, HTTP_400_BAD_REQUEST, None, <<>>)
        ELSE respond_updated(store, i,
                 dict_update(dict_update(store[i], update_data), [created_at |-> isoformat(t)]))

\* update_campaign, the handler body; campaign_update is the validated model
update_campaign(store, campaign_id, campaign_update, t) ==
    LET i == find(store, campaign_id)
        update_data == pop(pop(model_dump_exclude_unset(campaign_update), "campaign_id"), "created_at")
    IN  IF i = 0 THEN Answer(store, HTTP_404_NOT_FOUND, None, <<>>)
        ELSE IF DOMAIN update_data = {} THEN Answer(store, HTTP_400_BAD_REQUEST, None, <<>>)
        ELSE respond_updated(store, i, dict_update(store[i], update_data))

\* faulty variant: the last item is removed instead of the one found
delete_campaign_last(store, campaign_id) ==
    LET i == find(store, campaign_id)
    IN  IF i = 0 THEN Answer(store, HTTP_404_NOT_FOUND, None, <<>>)
        ELSE Answer(SubSeq(store, 1, Len(store) - 1), HTTP_204_NO_CONTENT, None, <<>>)

\* delete_campaign
delete_campaign(store, campaign_id) ==
    LET i == find(store, campaign_id)
    IN  IF i = 0 THEN Answer(store, HTTP_404_NOT_FOUND, None, <<>>)
        ELSE Answer(list_remove(store, store[i]), HTTP_204_NO_CONTENT, None, <<>>)

\* read_campaign
read_campaign(store, campaign_id) ==
    LET i == find(store, campaign_id)
    IN  IF i = 0 THEN Answer(store, HTTP_404_NOT_FOUND, None, <<>>)
        ELSE IF CampaignResponse(store[i]).ok
             THEN Answer(store, HTTP_200_OK, Some(CampaignResponse(store[i]).value), <<>>)
             ELSE Answer(store, HTTP_500_INTERNAL_SERVER_ERROR, None, <<>>)

\* read_campaigns: {"campaigns": data, "total": len(data)} through
\* response_model=CampaignListResponse
read_campaigns(store) ==
    IF \A i \in DOMAIN store : CampaignResponse(store[i]).ok
    THEN Answer(store, HTTP_200_OK,
                Some([campaigns |-> [i \in DOMAIN store |-> CampaignResponse(store[i]).value],
                      total |-> Len(store)]), <<>>)
    ELSE Answer(store, HTTP_500_INTERNAL_SERVER_ERROR, None, <<>>)

\* a request that fails the framework's validation of path and body
Unprocessable(store) == Answer(store, HTTP_422_UNPROCESSABLE, None, <<>>)

(***************************************************************************)
(* The routes: the framework validates the path parameter and the body      *)
(* (both before the handler is entered, 422 on failure), then runs the      *)
(* handler.                                                                 *)
(***************************************************************************)
post_campaigns(store, body, stream, t) ==
    IF CampaignCreate(body).ok
    THEN create_campaign(store, CampaignCreate(body).value, stream, t)
    ELSE Unprocessable(store)

put_campaign(store, campaign_id, body, t) ==
    IF path_id_ok(campaign_id) /\ CampaignUpdate(body).ok
    THEN update_campaign(store, campaign_id, CampaignUpdate(body).value, t)
    ELSE Unprocessable(store)

delete_campaign_route(store, campaign_id) ==
    IF path_id_ok(campaign_id) THEN delete_campaign(store, campaign_id) ELSE Unprocessable(store)

get_campaign(store, campaign_id) ==
    IF path_id_ok(campaign_id) THEN read_campaign(store, campaign_id) ELSE Unprocessable(store)

(***************************************************************************)
(* The requests the model sends.                                            *)
(***************************************************************************)
LongName == [i \in 1..(MAX_LENGTH + 1) |-> "a"]

\* what a body says about name: <<>> the key is absent, <<None>> null, <<Some(s)>> a string
NameInputs ==
    { <<>>, <<None>>,
      <<Some(<<>>)>>, <<Some(<<" ">>)>>,
      <<Some(<<" ", " ", "X", " ", " ">>)>>,
      <<Some(LongName)>> }

DueInputs == { <<>>, <<None>>, <<Some("2025-01-01")>>, <<Some("")>> }

\* the keys a client may add that no model declares
ExtraKeys == {"campaign_id", "created_at"}

\* ids a client may address: 0 fails gt=0, MaxId + 1 is never assigned
PathIds == 0..(MaxId + 1)

MkBody(n, d, x) ==
    [k \in (IF n # <<>> THEN {"name"} ELSE {}) \cup (IF d # <<>> THEN {"due_date"} ELSE {}) \cup x |->
        CASE k = "name" -> n[1]
          [] k = "due_date" -> d[1]
          [] k = "campaign_id" -> MaxId + 1
          [] k = "created_at" -> "1999-01-01T00:00:00"]

Bodies ==
    { MkBody(n, d, {}) : n \in NameInputs, d \in DueInputs }
    \cup { MkBody(n, <<>>, ExtraKeys) : n \in {<<>>, <<Some(<<" ", " ", "X", " ", " ">>)>>} }

Streams == [1..MaxAttempts -> IdSpace]

\* the request handled last and its answer
Exchange(op, campaign_id, body, answer) ==
    [op |-> op, campaign_id |-> campaign_id, body |-> body,
     status |-> answer.status, content |-> answer.content, draws |-> answer.draws]

\* the store as the module leaves it after import (lines 87-100)
SeedData ==
    << [campaign_id |-> 1, name |-> Some(<<"C", "a", "m", "p", "a", "i", "g", "n", " ", "1">>),
        due_date |-> Some(isoformat(0)), created_at |-> isoformat(0)],
       [campaign_id |-> 2, name |-> Some(<<"C", "a", "m", "p", "a", "i", "g", "n", " ", "2">>),
        due_date |-> Some(isoformat(0)), created_at |-> isoformat(0)] >>

Idle == [pc |-> "idle", op |-> "none", campaign_id |-> 0, body |-> <<>>, drawn |-> 0, status |-> 0]

Init ==
    /\ data = SeedData
    /\ now = 1
    /\ last = Exchange("none", 0, <<>>, Answer(SeedData, 0, None, <<>>))
    /\ clients = [c \in 1..NumClients |-> Idle]

(***************************************************************************)
(* One request handled from arrival to answer, one at a time.               *)
(***************************************************************************)
Handled(op, campaign_id, body, answer) ==
    /\ now <= MaxRequests
    /\ data' = answer.data
    /\ last' = Exchange(op, campaign_id, body, answer)
    /\ now' = now + 1
    /\ UNCHANGED clients

Create ==
    \E body \in Bodies :
        IF CampaignCreate(body).ok
        THEN \E stream \in Streams :
                Handled("create", 0, body, post_campaigns(data, body, stream, now))
        ELSE Handled("create", 0, body, post_campaigns(data, body, <<>>, now))

Update ==
    \E campaign_id \in PathIds, body \in Bodies :
        Handled("update", campaign_id, body, put_campaign(data, campaign_id, body, now))

Delete ==
    \E campaign_id \in PathIds :
        Handled("delete", campaign_id, <<>>, delete_campaign_route(data, campaign_id))

Get ==
    \E campaign_id \in PathIds :
        Handled("get", campaign_id, <<>>, get_campaign(data, campaign_id))

List == Handled("list", 0, <<>>, read_campaigns(data))

Next == Create \/ Update \/ Delete \/ Get \/ List

Spec == Init /\ [][Next]_vars

(***************************************************************************)
(* Several requests in flight (SpecConc).  The server is one event loop:    *)
(* a request is received and validated by the framework, which awaits the   *)
(* body, so other requests may be served before its handler is entered; a   *)
(* handler is an `async def` without any await, so once entered it runs to  *)
(* its return before the loop serves anything else.                         *)
(***************************************************************************)
Clients == 1..NumClients

ConcBodies ==
    { MkBody(<<Some(<<" ", " ", "X", " ", " ">>)>>, <<>>, {}),
      MkBody(<<>>, <<Some("2025-01-01")>>, {}),
      MkBody(<<Some(<<" ">>)>>, <<>>, {}) }

InFlight == Cardinality({c \in Clients : clients[c].pc = "ready"})

\* the framework's validation of path and body for a route
request_ok(op, campaign_id, body) ==
    CASE op = "create" -> CampaignCreate(body).ok
      [] op = "update" -> path_id_ok(campaign_id) /\ CampaignUpdate(body).ok
      [] OTHER -> path_id_ok(campaign_id)

Receive(c) ==
    /\ clients[c].pc = "idle"
    /\ (now - 1) + InFlight < MaxConcRequests
    /\ \E op \in {"create", "update", "delete", "get"}, campaign_id \in IdSpace, body \in ConcBodies :
          /\ op = "create" => campaign_id = 1
          /\ op \in {"delete", "get"} => body = MkBody(<<>>, <<Some("2025-01-01")>>, {})
          /\ IF request_ok(op, campaign_id, body)
             THEN /\ clients' = [clients EXCEPT ![c] =
                        [pc |-> "ready", op |-> op, campaign_id |-> campaign_id,
                         body |-> body, drawn |-> 0, status |-> 0]]
                  /\ UNCHANGED now
             ELSE /\ clients' = [clients EXCEPT ![c] =
                        [Idle EXCEPT !.status = HTTP_422_UNPROCESSABLE]]
                  /\ now' = now + 1
    /\ UNCHANGED <<data, last>>

\* the handler of client c returns with `answer`
Return(c, answer) ==
    /\ data' = answer.data
    /\ clients' = [clients EXCEPT ![c] = [Idle EXCEPT !.status = answer.status]]
    /\ now' = now + 1
    /\ UNCHANGED last

\* faulty variant: the loop is given back between the id generation and the append
create_campaign_task_split(c) ==
    /\ clients[c].pc = "ready" /\ clients[c].op = "create"
    /\ IF clients[c].drawn = 0
       THEN \E stream \in Streams :
               LET g == generate_unique_campaign_id(data, stream)
               IN  IF g.campaign_id = 0
                   THEN Return(c, Answer(data, HTTP_500_INTERNAL_SERVER_ERROR, None, g.draws))
                   ELSE /\ clients' = [clients EXCEPT ![c].drawn = g.campaign_id]
                        /\ UNCHANGED <<data, now, last>>
       ELSE Return(c, Answer(Append(data,
                        [campaign_id |-> clients[c].drawn,
                         name |-> Some(CampaignCreate(clients[c].body).value.name),
                         due_date |-> None,
                         created_at |-> isoformat(now)]), HTTP_201_CREATED, None, <<>>))

\* create_campaign entered for client c and run to its return
create_campaign_task(c) ==
    /\ clients[c].pc = "ready" /\ clients[c].op = "create"
    /\ \E stream \in Streams :
          Return(c, create_campaign(data, CampaignCreate(clients[c].body).value, stream, now))

update_campaign_task(c) ==
    /\ clients[c].pc = "ready" /\ clients[c].op = "update"
    /\ Return(c, update_campaign(data, clients[c].campaign_id,
                                 CampaignUpdate(clients[c].body).value, now))

delete_campaign_task(c) ==
    /\ clients[c].pc = "ready" /\ clients[c].op = "delete"
    /\ Return(c, delete_campaign(data, clients[c].campaign_id))

read_campaign_task(c) ==
    /\ clients[c].pc = "ready" /\ clients[c].op = "get"
    /\ Return(c, read_campaign(data, clients[c].campaign_id))

NextConc ==
    \E c \in Clients :
        \/ Receive(c)
        \/ create_campaign_task(c)
        \/ update_campaign_task(c)
        \/ delete_campaign_task(c)
        \/ read_campaign_task(c)

SpecConc == Init /\ [][NextConc]_vars

(***************************************************************************)
(* Properties of the one-at-a-time service (Spec).                          *)
(***************************************************************************)
Fields == {"campaign_id", "name", "due_date", "created_at"}

\* a request was handled in this step
Step(op) == now' = now + 1 /\ last'.op = op

UniqueIds(store) ==
    \A i, j \in DOMAIN store : store[i].campaign_id = store[j].campaign_id => i = j

\* the name a body carries is absent, null, empty or whitespace only
NameBlank(body) ==
    \/ "name" \notin DOMAIN body
    \/ body.name = None
    \/ \A k \in DOMAIN body.name[1] : body.name[1][k] \in {" ", "\t", "\n"}

\* the store without the records that carry campaign_id
Without(store, campaign_id) ==
    LET keep(r) == r.campaign_id # campaign_id IN SelectSeq(store, keep)

\* C1: no two live records share an id in any reachable state, and the id a
\* successful create returns is the id of no record live when it was handled.
C1_UniqueIds ==
    /\ [](UniqueIds(data))
    /\ [][(Step("create") /\ last'.status = HTTP_201_CREATED) =>
            /\ last'.content[1].campaign_id \notin ids(data)
            /\ data'[Len(data')].campaign_id = last'.content[1].campaign_id]_vars

C1_Witness ==
    /\ last.op = "create" /\ last.status = HTTP_201_CREATED
    /\ Len(last.draws) >= 2
    /\ Len(data) = 3

\* C2: a create whose name is absent, null, empty or whitespace only is
\* rejected as a validation error whatever its due_date; the store is left as
\* it was and no id is drawn.
C2_BlankNameRejected ==
    [][(Step("create") /\ NameBlank(last'.body)) =>
            /\ last'.status = HTTP_422_UNPROCESSABLE
            /\ data' = data
            /\ last'.draws = <<>>]_vars

C2_Witness ==
    /\ last.op = "create"
    /\ "name" \in DOMAIN last.body /\ last.body.name = Some(<<" ">>)
    /\ "due_date" \in DOMAIN last.body /\ last.body.due_date = Some("2025-01-01")
    /\ last.status = HTTP_422_UNPROCESSABLE

\* C3: an update addressed to an id that is not live answers 404 for every
\* body, and leaves the store as it was.
C3_NotFoundFirst ==
    [][(Step("update") /\ last'.campaign_id > 0 /\ last'.campaign_id \notin ids(data)) =>
            /\ last'.status = HTTP_404_NOT_FOUND
            /\ data' = data]_vars

\* C4: an update of a live id that supplies neither name nor due_date answers
\* 400 (neither the validation status nor 404) and leaves the store as it was.
C4_EmptyUpdate ==
    [][(/\ Step("update")
        /\ last'.campaign_id \in ids(data)
        /\ DOMAIN last'.body \cap {"name", "due_date"} = {}) =>
            /\ last'.status = HTTP_400_BAD_REQUEST
            /\ data' = data]_vars

C4_Witness ==
    /\ last.op = "update" /\ last.status = HTTP_400_BAD_REQUEST
    /\ last.campaign_id \in ids(data)
    /\ DOMAIN last.body = {"campaign_id", "created_at"}

\* C5: no request changes the id or the created_at of a record that stays
\* live: an update leaves every position's id and created_at as they were,
\* also when its body carries campaign_id and created_at, and no step of
\* any kind changes the created_at found under an id live before and after.
C5_IdAndCreatedAtImmutable ==
    /\ [][Step("update") =>
            /\ Len(data') = Len(data)
            /\ \A i \in DOMAIN data :
                  /\ data'[i].campaign_id = data[i].campaign_id
                  /\ data'[i].created_at = data[i].created_at]_vars
    /\ [][\A i \in DOMAIN data : \A j \in DOMAIN data' :
            data[i].campaign_id = data'[j].campaign_id =>
                data[i].created_at = data'[j].created_at]_vars

C5_Witness ==
    /\ last.op = "update" /\ last.status = HTTP_200_OK
    /\ {"campaign_id", "created_at"} \subseteq DOMAIN last.body
    /\ last.content[1].campaign_id = last.campaign_id
    /\ last.content[1].created_at = "2025-12-28T10:00:00"

\* the record an update of `old` with `body` is to leave
Merged(old, body) ==
    [campaign_id |-> old.campaign_id,
     created_at |-> old.created_at,
     name |-> IF "name" \in DOMAIN body /\ body.name # None
              THEN Some(strip(body.name[1])) ELSE old.name,
     due_date |-> IF "due_date" \in DOMAIN body THEN body.due_date ELSE old.due_date]

\* C6: an update answered 200 replaces exactly the fields its body supplies,
\* the name in trimmed form ("  X  " is stored as "X"), leaves the other
\* fields and every other record as they were, and a get of the same id,
\* asked of the resulting store or handled next, returns the merged record.
C6_PartialUpdate ==
    /\ [][(Step("update") /\ last'.status = HTTP_200_OK) =>
            LET i == find(data, last'.campaign_id)
            IN  /\ i # 0
                /\ Len(data') = Len(data)
                /\ \A j \in DOMAIN data : j # i => data'[j] = data[j]
                /\ data'[i] = Merged(data[i], last'.body)
                /\ ("name" \in DOMAIN last'.body /\ last'.body.name = Some(<<" ", " ", "X", " ", " ">>))
                      => data'[i].name = Some(<<"X">>)
                /\ last'.content = Some(data'[i])
                /\ get_campaign(data', last'.campaign_id).status = HTTP_200_OK
                /\ get_campaign(data', last'.campaign_id).content = Some(data'[i])]_vars
    /\ [][(/\ last.op = "update" /\ last.status = HTTP_200_OK
           /\ Step("get") /\ last'.campaign_id = last.campaign_id) =>
            /\ last'.status = HTTP_200_OK
            /\ last'.content = last.content]_vars

C6_Witness ==
    /\ last.op = "get" /\ last.status = HTTP_200_OK /\ last.campaign_id = 1
    /\ last.content[1].name = Some(<<"X">>)
    /\ last.content[1].due_date = Some("2025-12-28T10:00:00")
    /\ last.content[1].created_at = "2025-12-28T10:00:00"

\* C7: a delete of a live id answers 204 and removes that record and nothing
\* else, the order of the rest kept; a get of the id then answers 404; a
\* delete of an id that is not live changes nothing; and a delete handled
\* right after a successful delete of the same id answers 404; no request
\* other than a create makes an id live.
C7_Delete ==
    /\ [][Step("delete") =>
            IF last'.campaign_id \in ids(data)
            THEN /\ last'.status = HTTP_204_NO_CONTENT
                 /\ data' = Without(data, last'.campaign_id)
                 /\ Len(data') = Len(data) - 1
                 /\ get_campaign(data', last'.campaign_id).status = HTTP_404_NOT_FOUND
            ELSE /\ data' = data
                 /\ last'.status # HTTP_204_NO_CONTENT]_vars
    /\ [][(/\ last.op = "delete" /\ last.status = HTTP_204_NO_CONTENT
           /\ Step("delete") /\ last'.campaign_id = last.campaign_id) =>
            /\ last'.status = HTTP_404_NOT_FOUND
            /\ data' = data]_vars
    /\ [][(/\ last.op = "delete" /\ last.status = HTTP_204_NO_CONTENT
           /\ Step("get") /\ last'.campaign_id = last.campaign_id) =>
            last'.status = HTTP_404_NOT_FOUND]_vars
    /\ [][(now' = now + 1 /\ last'.op # "create") => ids(data') \subseteq ids(data)]_vars

C7_Witness ==
    /\ last.op = "delete" /\ last.status = HTTP_404_NOT_FOUND
    /\ last.campaign_id = 1
    /\ Len(data) = 1 /\ data[1].campaign_id = 2

\* C8: every live record has the four fields and a name that is a string
\* with at least one character that is not whitespace.
C8_RecordsWhole ==
    \A i \in DOMAIN data :
        /\ DOMAIN data[i] = Fields
        /\ data[i].name # None
        /\ \E k \in DOMAIN data[i].name[1] : data[i].name[1][k] \notin {" ", "\t", "\n"}

\* the body of a create request passes the request model
ValidCreateBody(body) ==
    /\ ~NameBlank(body)
    /\ Len(body.name[1]) <= MAX_LENGTH

\* C10: a valid create makes between one and MaxAttempts draws and either
\* answers 201, appending one record whose id is in the id space and was
\* not live, or answers 500 (never the validation status) with the store as
\* it was, after MaxAttempts draws that all hit live ids; with every id of
\* the space live, 500 is the only answer.
C10_BoundedIdGeneration ==
    [][(Step("create") /\ ValidCreateBody(last'.body)) =>
            /\ Len(last'.draws) \in 1..MaxAttempts
            /\ \/ /\ last'.status = HTTP_201_CREATED
                  /\ last'.content[1].campaign_id \in IdSpace \ ids(data)
                  /\ last'.content[1].campaign_id = last'.draws[Len(last'.draws)]
                  /\ data' = Append(data, last'.content[1])
               \/ /\ last'.status = HTTP_500_INTERNAL_SERVER_ERROR
                  /\ data' = data
                  /\ Len(last'.draws) = MaxAttempts
                  /\ \A k \in DOMAIN last'.draws : last'.draws[k] \in ids(data)
            /\ ids(data) = IdSpace => last'.status = HTTP_500_INTERNAL_SERVER_ERROR]_vars

C10_Witness ==
    /\ last.op = "create" /\ last.status = HTTP_500_INTERNAL_SERVER_ERROR
    /\ ids(data) = IdSpace
    /\ Len(last.draws) = MaxAttempts

\* C9: with several requests in flight, in every reachable state no two
\* live records share an id and every live record has all four fields, its
\* id in the id space.
C9_AtomicStoreOperations ==
    /\ UniqueIds(data)
    /\ \A i \in DOMAIN data :
          /\ DOMAIN data[i] = Fields
          /\ data[i].campaign_id \in IdSpace

\* a create has returned 201 while another validated create was waiting for
\* its handler to be entered
C9_Witness ==
    \E c, d \in Clients :
        /\ c # d
        /\ clients[c].status = HTTP_201_CREATED
        /\ clients[d].pc = "ready" /\ clients[d].op = "create"
        /\ Len(data) = 3

====
